---- MODULE Spec2Model ----
(***************************************************************************)
(* Model of the parallel kernel layer of matrix_computation_engine         *)
(* (kernels.c: row_range, mv_mt, mm_mt, dt_mt, ax_mt and their workers),   *)
(* of the Mat/Vec constructors of matrix.c and of the cancellation flag    *)
(* g_stop of main.c.  Values are small integers, for which double          *)
(* arithmetic is exact.                                                    *)
(***************************************************************************)
EXTENDS Integers, Sequences, FiniteSets, TLC

(* ---------------- bounds of the model ---------------- *)
MaxRows == 2
MaxCols == 2
MaxLen == 3
MaxNT == 3
MaxTile == 2
MaxTD == 3
MaxTT == 4
MaxCalls == 2
MaxRep == 2

MaxPR == 9
MaxPN == 8

VARIABLES
    op,        \* the kernel the driver calls: "mv", "mm", "dt" or "ax"
    A, B, C,   \* Mat arguments (C is mm's output)
    x, y,      \* Vec arguments (y is mv's and ax's output)
    a,         \* ax's scalar
    out,       \* *out of dt_mt
    cfg,       \* KCfg: [nt, tile]
    g_stop,    \* the cancellation flag
    pc,        \* position of the calling thread
    nt, t,     \* locals of the kernel call: worker count, loop index
    sum,       \* local of dt_mt
    ret,       \* return code of the last call
    scratch,   \* ths/jobs storage: "none", "live", "freed"
    jobs,      \* job descriptors: tid -> [tid, nt, tile, partial]
    wpc,       \* tid -> position of worker tid
    wi, wend,  \* tid -> locals i and i1 of worker tid
    ws,        \* tid -> local s of dt_worker
    calls,     \* number of ax_mt calls made so far (each one changes y again)
    writers,   \* history: output offset -> workers that wrote it in this call
    entry,     \* history: output buffers at entry of the current call
    prevClean, \* history: the previous call succeeded, uninterrupted, all started
    pR, pN,    \* inputs of the partitioner under SpecRange
    pRange,    \* tid -> the range row_range returned, or <<>>
    wk,        \* tid -> position of mm_worker tid inside its row (SpecRow)
    heap,      \* history: ths, jobs -> [got: calloc succeeded, frees: times freed]
    argv,      \* main: the parsed command line [op, paths, nt, rep]
    files,     \* what the input files hold: path -> "ok", "bad" or "odd"
    dpos,      \* position of main / do_*; "none" when no driver runs
    cur,       \* the do_* function that is running
    iter,      \* loop counter r of the timing loop
    rc,        \* return value of the last do_*
    exitcode,  \* exit status of the process, -1 while it runs
    live,      \* names of the Mat and Vec objects whose buffer is allocated
    printed,   \* ops whose result rows and preview were printed
    res1,      \* C1 / y1 / out1: result of the 1-thread loop (axpy: loaded y)
    resN       \* CN / yN / outN: result of the N-thread loop

\* the variables of the benchmark driver (main.c)
dvars == <<argv, files, dpos, cur, iter, rc, exitcode, live, printed, res1, resN>>

vars == <<op, A, B, C, x, y, a, out, cfg, g_stop, pc, nt, t, sum, ret,
          scratch, jobs, wpc, wi, wend, ws, calls, writers, entry,
          prevClean, pR, pN, pRange, wk, heap, argv, files, dpos, cur, iter, rc,
          exitcode, live, printed, res1, resN>>

kvars == <<op, A, B, C, x, y, a, out, cfg, g_stop, pc, nt, t, sum, ret,
           scratch, jobs, wpc, wi, wend, ws, calls, writers, entry,
           prevClean>>

Tids == 0 .. (MaxNT - 1)

(* ---------------- matrix.c: Mat and Vec ---------------- *)

\* deterministic test data: n values in -1..3 depending on the seed
Fill(seed, n) == [p \in 1..n |-> (((seed + 2) * p) % 5) - 1]

\* m_alloc: the buffer is absent when r = 0 or c = 0 (rows/cols are kept)
m_alloc(r, c) ==
    IF r = 0 \/ c = 0
    THEN [rows |-> r, cols |-> c, present |-> FALSE, data |-> <<>>]
    ELSE [rows |-> r, cols |-> c, present |-> TRUE,
          data |-> [p \in 1..(r * c) |-> 0]]

\* v_alloc: the buffer is absent when n = 0
v_alloc(n) ==
    IF n = 0
    THEN [len |-> 0, present |-> FALSE, data |-> <<>>]
    ELSE [len |-> n, present |-> TRUE, data |-> [p \in 1..n |-> 0]]

\* m_load / v_load: an allocated object whose buffer is filled from a file
MatOf(r, c, seed) ==
    [m_alloc(r, c) EXCEPT !.data = Fill(seed, Len(m_alloc(r, c).data))]

VecOf(n, seed) ==
    [v_alloc(n) EXCEPT !.data = Fill(seed, Len(v_alloc(n).data))]

\* the vectors of the documented examples: [1,2,3], [4,5,6], [10,20,30]
VecEx(n, mul, off) ==
    [v_alloc(n) EXCEPT !.data = [p \in 1..Len(v_alloc(n).data) |-> mul * p + off]]

\* m_alloc with the outcome of calloc: on failure rows = cols = 0; with a
\* zero count calloc is not called and rows, cols stay as requested
m_alloc_call(r, c, got) ==
    IF r = 0 \/ c = 0 \/ got THEN m_alloc(r, c)
    ELSE [rows |-> 0, cols |-> 0, present |-> FALSE, data |-> <<>>]

\* v_alloc with the outcome of calloc: on failure len = 0
v_alloc_call(n, got) ==
    IF n = 0 \/ got THEN v_alloc(n)
    ELSE [len |-> 0, present |-> FALSE, data |-> <<>>]

\* m_free / v_free: the buffer is released, the counts are zeroed
m_free(M) == [rows |-> 0, cols |-> 0, present |-> FALSE, data |-> <<>>]

v_free(V) == [len |-> 0, present |-> FALSE, data |-> <<>>]

NoMat == m_alloc(0, 0)
NoVec == v_alloc(0)

\* m_get: element (i,j) of a row-major buffer, 0-based
m_get(M, i, j) == M.data[i * M.cols + j + 1]

(* ---------------- kernels.c: the partitioner ---------------- *)

\* mutant: the start forgets the rows given to the workers before tid
row_range_norem(nrows, tid, n) ==
    LET base == nrows \div n
        rem == nrows % n
        start == tid * base
        extra == IF tid < rem THEN 1 ELSE 0
    IN  <<start, start + base + extra>>

\* mutant: the ranges start one row late
row_range_shift(nrows, tid, n) ==
    LET base == nrows \div n
        rem == nrows % n
        start == tid * base + (IF tid < rem THEN tid ELSE rem)
        extra == IF tid < rem THEN 1 ELSE 0
    IN  <<IF start + 1 < start + base + extra THEN start + 1 ELSE start + base + extra,
          start + base + extra>>

\* mutant: the extra row goes to the first worker only
row_range_first(nrows, tid, n) ==
    LET base == nrows \div n
        rem == nrows % n
        start == IF tid = 0 THEN 0 ELSE tid * base + rem
        extra == IF tid = 0 THEN rem ELSE 0
    IN  <<start, start + base + extra>>

row_range(nrows, tid, n) ==
    LET base == nrows \div n
        rem == nrows % n
        start == tid * base + (IF tid < rem THEN tid ELSE rem)
        extra == IF tid < rem THEN 1 ELSE 0
        end == start + base + extra
    IN  <<start, end>>

\* cfg.nt <= 0 ? 1 : cfg.nt
\* mutant: the thread count is used as given
CoerceNT_raw(n) == n

CoerceNT(n) == IF n <= 0 THEN 1 ELSE n

(* ---------------- kernels.c: the inner loops ---------------- *)

\* for (k = 0; k < n; k++) sum += row[k] * x[k];   (mv_worker, row i)
RECURSIVE mv_sum(_, _, _, _, _)
mv_sum(M, v, i, k, acc) ==
    IF k >= M.cols THEN acc
    ELSE mv_sum(M, v, i, k + 1, acc + m_get(M, i, k) * v.data[k + 1])

\* mutant: the reduction loop starts at k = 1
mv_row_from1(i) == mv_sum(A, x, i, 1, 0)

\* double sum = 0.0; for (k ...) sum += ...;  the value stored in y[i]
mv_row(i) == mv_sum(A, x, i, 0, 0)

\* mutant: the product is added to x[i] instead of y[i]
ax_elem_x(i) == a * x.data[i + 1] + x.data[i + 1]

\* a * x[i] + y[i], the value stored in y[i] by ax_worker
ax_elem(i) == a * x.data[i + 1] + y.data[i + 1]

\* for (col = lo; col < hi; col++) crow[col] += a * brow[col];
\* with a = A[i,k], brow = row k of B, crow = row i of C (buffer cd)
crow_update(cd, MA, MB, i, k, lo, hi) ==
    LET n == MB.cols
    IN  [p \in 1..Len(cd) |->
            IF p - 1 >= i * n + lo /\ p - 1 < i * n + hi
            THEN cd[p] + m_get(MA, i, k) * MB.data[k * n + (p - 1 - i * n) + 1]
            ELSE cd[p]]

\* for (k = klo; k < khi; k++) { ... columns [lo,hi) ... }
RECURSIVE k_loop(_, _, _, _, _, _, _, _)
k_loop(cd, MA, MB, i, k, khi, lo, hi) ==
    IF k >= khi THEN cd
    ELSE k_loop(crow_update(cd, MA, MB, i, k, lo, hi), MA, MB, i, k + 1, khi, lo, hi)

min_sz(p, q) == IF p < q THEN p ELSE q

\* mutant: only full reduction blocks are visited, a last partial block is dropped
RECURSIVE kk_loop_full(_, _, _, _, _, _, _, _)
kk_loop_full(cd, MA, MB, i, kk, T, jj, jend) ==
    IF kk + T > MA.cols THEN cd
    ELSE kk_loop_full(k_loop(cd, MA, MB, i, kk, kk + T, jj, jend),
                      MA, MB, i, kk + T, T, jj, jend)

\* for (kk = 0; kk < K; kk += T) { kend = min(kk+T, K); k in [kk,kend) }
RECURSIVE kk_loop(_, _, _, _, _, _, _, _)
kk_loop(cd, MA, MB, i, kk, T, jj, jend) ==
    IF kk >= MA.cols THEN cd
    ELSE kk_loop(k_loop(cd, MA, MB, i, kk, min_sz(kk + T, MA.cols), jj, jend),
                 MA, MB, i, kk + T, T, jj, jend)

\* for (jj = 0; jj < N; jj += T) { jend = min(jj+T, N); ... }
RECURSIVE jj_loop(_, _, _, _, _, _)
jj_loop(cd, MA, MB, i, jj, T) ==
    IF jj >= MB.cols THEN cd
    ELSE jj_loop(kk_loop(cd, MA, MB, i, 0, T, jj, min_sz(jj + T, MB.cols)),
                 MA, MB, i, jj + T, T)

\* one row of mm_worker: untiled when tile <= 0, tiled otherwise
mm_row(cd, MA, MB, i, tile) ==
    IF tile <= 0
    THEN k_loop(cd, MA, MB, i, 0, MA.cols, 0, MB.cols)
    ELSE jj_loop(cd, MA, MB, i, 0, tile)

\* mutant: the output is not cleared
ZeroFill_skip(M) == M

\* memset(C->data, 0, ...)
ZeroFill(M) == [M EXCEPT !.data = [p \in 1..Len(M.data) |-> 0]]

(* ---------------- argument validation ---------------- *)

mv_args_ok == A.present /\ x.present /\ y.present
mv_dims_ok == A.cols = x.len /\ A.rows = y.len
mm_args_ok == A.present /\ B.present /\ C.present
\* mutant: the shape of C is not checked
mm_dims_ok_noC == A.cols = B.rows

mm_dims_ok == A.cols = B.rows /\ C.rows = A.rows /\ C.cols = B.cols
\* mutant: the buffers of x and y are not tested
dt_args_ok_any == TRUE

dt_args_ok == x.present /\ y.present
dt_dims_ok == x.len = y.len
ax_args_ok == x.present /\ y.present
ax_dims_ok == x.len = y.len

(* ---------------- initial states ---------------- *)

\* the data patterns the buffers are filled with
Seeds == {1, 2}
Dims == 0..MaxRows
CDims == 0..MaxCols
Lens == 0..MaxLen
NTs == (-1)..MaxNT
Tiles == (-1)..MaxTile

\* a dimension that agrees with d, or one that does not
Around(d, S) == {d, (d + 1) % (Cardinality(S))}

\* no scratch storage has been asked for
NoScratch == [o \in {"ths", "jobs"} |-> [got |-> FALSE, frees |-> 0]]

NoWorkers ==
    /\ wpc = [w \in Tids |-> "none"]
    /\ wi = [w \in Tids |-> 0]
    /\ wend = [w \in Tids |-> 0]
    /\ ws = [w \in Tids |-> 0]
    /\ jobs = [w \in Tids |-> [tid |-> 0, nt |-> 0, tile |-> 0, partial |-> 0]]
    /\ wk = [w \in Tids |-> 0]
    /\ heap = NoScratch

\* the kernels are called directly: no driver runs
NoDriver ==
    /\ argv = [op |-> "none", paths |-> {}, nt |-> 1, rep |-> 1]
    /\ files = <<>>
    /\ dpos = "none" /\ cur = "none" /\ iter = 0 /\ rc = 0 /\ exitcode = -1
    /\ live = {} /\ printed = {}
    /\ res1 = 0 /\ resN = 0

InitCommon ==
    /\ NoDriver
    /\ g_stop = FALSE
    /\ pc = "idle"
    /\ nt = 0 /\ t = 0 /\ sum = 0 /\ ret = 0
    /\ scratch = "none"
    /\ NoWorkers
    /\ calls = 0
    /\ writers = <<>>
    /\ entry = [y |-> y, C |-> C, out |-> out]
    /\ prevClean = FALSE
    /\ pR = 0 /\ pN = 1 /\ pRange = <<>>

InitMV ==
    /\ op = "mv"
    /\ \E r \in Dims, k \in CDims, sd \in Seeds :
         /\ A = MatOf(r, k, sd)
         /\ \E xl \in Around(k, CDims), yl \in Around(r, Dims) :
              /\ x = VecOf(xl, sd + 1)
              /\ y = VecOf(yl, sd + 2)
    /\ B = NoMat /\ C = NoMat /\ a = 0 /\ out = 0
    /\ \E n \in NTs : cfg = [nt |-> n, tile |-> 0]

InitMM ==
    /\ op = "mm"
    /\ \E r \in Dims, k \in CDims, n \in CDims, sd \in {1} :
         /\ A = MatOf(r, k, sd)
         /\ \E br \in Around(k, CDims), cr \in Around(r, Dims), cc \in Around(n, CDims) :
              /\ B = MatOf(br, n, sd + 1)
              /\ C = MatOf(cr, cc, sd + 2)
    /\ x = NoVec /\ y = NoVec /\ a = 0 /\ out = 0
    /\ \E n \in NTs, tl \in Tiles : cfg = [nt |-> n, tile |-> tl]

InitDT ==
    /\ op = "dt"
    /\ \E l \in Lens, sd \in Seeds \cup {0} :
         /\ x = IF sd = 0 THEN VecEx(l, 1, 0) ELSE VecOf(l, sd)
         /\ \E yl \in Around(l, Lens) :
              y = IF sd = 0 THEN VecEx(yl, 1, 3) ELSE VecOf(yl, sd + 1)
    /\ A = NoMat /\ B = NoMat /\ C = NoMat /\ a = 0
    /\ out \in {0, 7}
    /\ \E n \in NTs : cfg = [nt |-> n, tile |-> 0]

InitAX ==
    /\ op = "ax"
    /\ \E l \in Lens, sd \in Seeds \cup {0} :
         /\ x = IF sd = 0 THEN VecEx(l, 1, 0) ELSE VecOf(l, sd)
         /\ \E yl \in Around(l, Lens) :
              y = IF sd = 0 THEN VecEx(yl, 10, 0) ELSE VecOf(yl, sd + 1)
    /\ A = NoMat /\ B = NoMat /\ C = NoMat /\ out = 0
    /\ a \in {-1, 2}
    /\ \E n \in NTs : cfg = [nt |-> n, tile |-> 0]

Init == (InitMV \/ InitMM \/ InitDT \/ InitAX) /\ InitCommon

\* mm_mt alone, on well-formed arguments, over more shapes and tile sizes
InitTile ==
    /\ op = "mm"
    /\ \E r \in {1, 2}, k \in 1..MaxTD, n \in 1..MaxTD, sd \in Seeds :
         /\ A = MatOf(r, k, sd)
         /\ B = MatOf(k, n, sd + 1)
         /\ C = MatOf(r, n, sd + 2)
    /\ x = NoVec /\ y = NoVec /\ a = 0 /\ out = 0
    /\ \E n \in {1, 2, 3}, tl \in (-1)..MaxTT : cfg = [nt |-> n, tile |-> tl]
    /\ InitCommon

(* ---------------- kernels.c: the kernel calls ---------------- *)

\* number of rows (mv, mm) or elements (dt, ax) that are partitioned
NRows == IF op \in {"mv", "mm"} THEN A.rows ELSE x.len

\* the output buffer the workers of the running kernel write
OutData == IF op = "mm" THEN C.data ELSE IF op = "dt" THEN <<>> ELSE y.data

\* the call ran to its end without cancellation and with every worker started
AllStarted == nt = CoerceNT(cfg.nt)

\* mutant: the storage that was obtained is not freed when the other is not
free_failed_leak(got) == 0

\* free(ths); free(jobs) after a failed calloc: free(NULL) releases nothing
free_failed(got) == IF got THEN 1 ELSE 0

\* entry of a kernel: validation, (mm: zero fill,) thread count, scratch storage
KernelEnter(k, valid) ==
    /\ pc \in {"idle", "ret"}
    /\ op = k
    /\ IF k = "ax" THEN calls < MaxCalls /\ calls' = calls + 1 ELSE calls' = calls
    /\ entry' = [y |-> y, C |-> C, out |-> out]
    /\ prevClean' = (pc = "ret" /\ ret = 0 /\ AllStarted /\ ~g_stop)
    /\ wpc' = [w \in Tids |-> "none"]
    /\ wi' = [w \in Tids |-> 0]
    /\ wend' = [w \in Tids |-> 0]
    /\ ws' = [w \in Tids |-> 0]
    /\ jobs' = [w \in Tids |-> [tid |-> 0, nt |-> 0, tile |-> 0, partial |-> 0]]
    /\ writers' = [p \in 1..Len(OutData) |-> {}]
    /\ sum' = 0
    /\ IF ~valid
       THEN /\ ret' = -1
            /\ pc' = "ret"
            /\ scratch' = "none"
            /\ heap' = NoScratch
            /\ UNCHANGED <<C, nt, t>>
       ELSE \E gotT \in BOOLEAN, gotJ \in BOOLEAN :
            /\ C' = IF k = "mm" THEN ZeroFill(C) ELSE C
            /\ nt' = CoerceNT(cfg.nt)
            /\ t' = 0
            /\ IF gotT /\ gotJ
               THEN /\ pc' = "spawn" /\ scratch' = "live" /\ ret' = ret
                    /\ heap' = [ths |-> [got |-> TRUE, frees |-> 0],
                                jobs |-> [got |-> TRUE, frees |-> 0]]
               ELSE /\ pc' = "ret" /\ scratch' = "none" /\ ret' = -1
                    /\ heap' = [ths |-> [got |-> gotT, frees |-> free_failed(gotT)],
                                jobs |-> [got |-> gotJ, frees |-> free_failed(gotJ)]]
    /\ UNCHANGED <<op, A, B, x, y, a, out, cfg, g_stop, pR, pN, pRange, wk, dvars>>

mv_mt == KernelEnter("mv", mv_args_ok /\ mv_dims_ok)
mm_mt == KernelEnter("mm", mm_args_ok /\ mm_dims_ok)
dt_mt == KernelEnter("dt", dt_args_ok /\ dt_dims_ok)
ax_mt == KernelEnter("ax", ax_args_ok /\ ax_dims_ok)

\* mutant: a failed creation leaves the worker count as it was
spawn_failed_keep(tt) == nt

\* the worker count after the creation of worker tt failed: nt = t
spawn_failed(tt) == tt

\* one iteration of the spawn loop: jobs[t] = {...}; pthread_create succeeds
\* or fails (nt = t; break).  Leaving the loop enters the join loop.
Spawn ==
    /\ pc = "spawn"
    /\ t < nt
    /\ jobs' = [jobs EXCEPT ![t] = [tid |-> t, nt |-> nt, tile |-> cfg.tile, partial |-> 0]]
    /\ \E created \in BOOLEAN :
         IF created
         THEN /\ wpc' = [wpc EXCEPT ![t] = "start"]
              /\ nt' = nt
              /\ IF t + 1 < nt THEN pc' = pc /\ t' = t + 1
                               ELSE pc' = "join" /\ t' = 0
         ELSE /\ wpc' = wpc
              /\ nt' = spawn_failed(t)
              /\ pc' = "join" /\ t' = 0
    /\ UNCHANGED <<op, A, B, C, x, y, a, out, cfg, g_stop, sum, ret, scratch,
                   wi, wend, ws, calls, writers, entry, prevClean, pR, pN, pRange, wk, heap, dvars>>

\* mutant: the join does not wait for the worker
Joinable_nowait(w) == TRUE

\* pthread_join(ths[t]) returns once worker t has finished
Joinable(w) == wpc[w] = "done"

\* mutant: the total is overwritten by the partial
dt_add_last(s, w) == jobs[w].partial

\* mutant: the join loop adds the partial of the following worker
dt_add_next(s, w) == s + jobs[(w + 1) % MaxNT].partial

\* sum += jobs[t].partial
dt_add(s, w) == s + jobs[w].partial

\* one iteration of the join loop (dt: sum += jobs[t].partial)
Join ==
    /\ pc = "join"
    /\ t < nt
    /\ Joinable(t)
    /\ sum' = IF op = "dt" THEN dt_add(sum, t) ELSE sum
    /\ t' = t + 1
    /\ UNCHANGED <<op, A, B, C, x, y, a, out, cfg, g_stop, pc, nt, ret, scratch,
                   jobs, wpc, wi, wend, ws, calls, writers, entry, prevClean,
                   pR, pN, pRange, wk, heap, dvars>>

\* mutant: an interrupted call reports the interruption in its return code
ret_ok_stop == IF g_stop THEN 2 ELSE 0

\* the return value of a call that reached its join loop: return 0
ret_ok == 0

\* after the join loop: (dt: *out = sum;) free(ths); free(jobs); return 0
KernelReturn ==
    /\ pc = "join"
    /\ t >= nt
    /\ out' = IF op = "dt" THEN sum ELSE out
    /\ scratch' = "freed"
    /\ ret' = ret_ok
    /\ heap' = [o \in {"ths", "jobs"} |-> [heap[o] EXCEPT !.frees = @ + 1]]
    /\ pc' = "ret"
    /\ UNCHANGED <<op, A, B, C, x, y, a, cfg, g_stop, nt, t, sum, jobs, wpc, wi,
                   wend, ws, calls, writers, entry, prevClean, pR, pN, pRange, wk, dvars>>

(* ---------------- kernels.c: the workers ---------------- *)

\* the worker's exit (dt_worker stores j->partial = s before it returns)
\* mutant: every worker is handed the first job
job_of_first(w) == 0

\* Job *j = (Job*)arg: the job the caller passed to pthread_create, &jobs[t]
job_of(w) == w

WorkerExit(w, s) ==
    /\ wpc' = [wpc EXCEPT ![w] = "done"]
    /\ jobs' = IF op = "dt" THEN [jobs EXCEPT ![job_of(w)].partial = s] ELSE jobs

\* mutant: the loop head does not read the flag
stop_seen_never == FALSE

\* the test of the loop head: if (g_stop) break
stop_seen == g_stop

\* mutant: the worker reads the caller's running worker count
job_nt_live(w) == nt

\* the worker count a worker partitions with: j->nt, as stored at its spawn
job_nt(w) == jobs[w].nt

\* row_range(n, j->tid, j->nt, &i0, &i1), the loop initialisation and the
\* first evaluation of the loop head
WorkerStart(w, n) ==
    /\ wpc[w] = "start"
    /\ wi' = [wi EXCEPT ![w] = row_range(n, jobs[w].tid, job_nt(w))[1]]
    /\ wend' = [wend EXCEPT ![w] = row_range(n, jobs[w].tid, job_nt(w))[2]]
    /\ ws' = [ws EXCEPT ![w] = 0]
    /\ IF wi'[w] < wend'[w] /\ ~stop_seen
       THEN wpc' = [wpc EXCEPT ![w] = "body"] /\ jobs' = jobs
       ELSE WorkerExit(w, 0)
    /\ UNCHANGED <<op, A, B, C, x, y, a, out, cfg, g_stop, pc, nt, t, sum, ret,
                   scratch, calls, writers, entry, prevClean, pR, pN, pRange, wk, heap, dvars>>

\* loop head of a further iteration: if (g_stop) break
WorkerCheck(w) ==
    /\ wpc[w] = "check"
    /\ IF ~stop_seen
       THEN wpc' = [wpc EXCEPT ![w] = "body"] /\ jobs' = jobs
       ELSE WorkerExit(w, ws[w])
    /\ UNCHANGED <<op, A, B, C, x, y, a, out, cfg, g_stop, pc, nt, t, sum, ret,
                   scratch, wi, wend, ws, calls, writers, entry, prevClean,
                   pR, pN, pRange, wk, heap, dvars>>

\* end of a loop body: i++, and the test i < i1 of the loop head; the worker
\* that has reached i1 leaves the loop without reading g_stop
\* mutant: the loop steps over every other index
next_i_skip(i) == i + 2

\* for (i = i0; i < i1; i++): the index of the next iteration
next_i(i) == i + 1

WorkerNext(w, s) ==
    /\ wpc[w] = "body"
    /\ wi' = [wi EXCEPT ![w] = next_i(wi[w])]
    /\ IF next_i(wi[w]) < wend[w]
       THEN wpc' = [wpc EXCEPT ![w] = "check"] /\ jobs' = jobs
       ELSE WorkerExit(w, s)
    /\ UNCHANGED <<op, A, B, x, a, out, cfg, g_stop, pc, nt, t, sum, ret,
                   scratch, wend, calls, entry, prevClean, pR, pN, pRange, heap,
                   dvars>>

\* the writes of worker w to the output offsets in S are recorded
Wrote(w, S) ==
    writers' = [p \in DOMAIN writers |-> IF p \in S THEN writers[p] \cup {w} ELSE writers[p]]

mv_worker(w) ==
    /\ op = "mv"
    /\ \/ WorkerStart(w, A.rows)
       \/ WorkerCheck(w)
       \/ /\ WorkerNext(w, 0)
          /\ y' = [y EXCEPT !.data[wi[w] + 1] = mv_row(wi[w])]
          /\ Wrote(w, {wi[w] + 1})
          /\ UNCHANGED <<C, ws, wk>>

mm_worker(w) ==
    /\ op = "mm"
    /\ \/ WorkerStart(w, A.rows)
       \/ WorkerCheck(w)
       \/ /\ WorkerNext(w, 0)
          /\ C' = [C EXCEPT !.data = mm_row(C.data, A, B, wi[w], jobs[w].tile)]
          /\ Wrote(w, {wi[w] * B.cols + col + 1 : col \in 0..(B.cols - 1)})
          /\ UNCHANGED <<y, ws, wk>>

\* mutant: the loop body of dt_worker stores the product into y[i]
dt_store_prod(w) == [y EXCEPT !.data[wi[w] + 1] = x.data[wi[w] + 1] * y.data[wi[w] + 1]]

\* y after one loop body of dt_worker: x[i] and y[i] are only read
dt_store(w) == y

dt_worker(w) ==
    /\ op = "dt"
    /\ \/ WorkerStart(w, x.len)
       \/ WorkerCheck(w)
       \/ /\ WorkerNext(w, ws[w] + x.data[wi[w] + 1] * y.data[wi[w] + 1])
          /\ ws' = [ws EXCEPT ![w] = ws[w] + x.data[wi[w] + 1] * y.data[wi[w] + 1]]
          /\ y' = dt_store(w)
          /\ UNCHANGED <<C, writers, wk>>

ax_worker(w) ==
    /\ op = "ax"
    /\ \/ WorkerStart(w, x.len)
       \/ WorkerCheck(w)
       \/ /\ WorkerNext(w, 0)
          /\ y' = [y EXCEPT !.data[wi[w] + 1] = ax_elem(wi[w])]
          /\ Wrote(w, {wi[w] + 1})
          /\ UNCHANGED <<C, ws, wk>>

(* ---------------- main.c: the cancellation flag ---------------- *)

\* SIGINT handler: g_stop = 1
on_sigint ==
    /\ ~g_stop
    /\ g_stop' = TRUE
    /\ UNCHANGED <<op, A, B, C, x, y, a, out, cfg, pc, nt, t, sum, ret, scratch,
                   jobs, wpc, wi, wend, ws, calls, writers, entry, prevClean,
                   pR, pN, pRange, wk, heap, dvars>>

Next ==
    \/ mv_mt \/ mm_mt \/ dt_mt \/ ax_mt
    \/ Spawn \/ Join \/ KernelReturn
    \/ \E w \in Tids : mv_worker(w)
    \/ \E w \in Tids : mm_worker(w)
    \/ \E w \in Tids : dt_worker(w)
    \/ \E w \in Tids : ax_worker(w)
    \/ on_sigint

Spec == Init /\ [][Next]_vars

NextMM ==
    \/ mm_mt
    \/ Spawn \/ Join \/ KernelReturn
    \/ \E w \in Tids : mm_worker(w)
    \/ on_sigint

SpecMM == InitTile /\ [][NextMM]_vars

(* ---------------- mm_worker row by inner-loop step ---------------- *)

\* the updates crow[lo..hi) += A[i,k] * brow[lo..hi) of one row, as triples
\* <<k, lo, hi>> in the order the loops of mm_worker make them
k_steps(k, khi, lo, hi) == [n \in 1..(khi - k) |-> <<k + n - 1, lo, hi>>]

RECURSIVE kk_steps(_, _, _, _, _)
kk_steps(kk, K, T, jj, jend) ==
    IF kk >= K THEN <<>>
    ELSE k_steps(kk, min_sz(kk + T, K), jj, jend) \o kk_steps(kk + T, K, T, jj, jend)

RECURSIVE jj_steps(_, _, _, _)
jj_steps(jj, N, K, T) ==
    IF jj >= N THEN <<>>
    ELSE kk_steps(0, K, T, jj, min_sz(jj + T, N)) \o jj_steps(jj + T, N, K, T)

row_steps(MA, MB, tile) ==
    IF tile <= 0
    THEN k_steps(0, MA.cols, 0, MB.cols)
    ELSE jj_steps(0, MB.cols, MA.cols, tile)

\* mutant: the flag is also read between the inner-loop steps of a row
row_continues_stop(w, st) == wk[w] + 1 < Len(st) /\ ~g_stop

\* the inner loops of the row have a further step
row_continues(w, st) == wk[w] + 1 < Len(st)

\* one inner-loop step of the row worker w is in; after the last one the
\* outer loop advances
mm_row_step(w) ==
    LET st == row_steps(A, B, jobs[w].tile)
        u  == st[wk[w] + 1]
    IN  /\ wpc[w] = "body"
        /\ C' = [C EXCEPT !.data = crow_update(C.data, A, B, wi[w], u[1], u[2], u[3])]
        /\ Wrote(w, {wi[w] * B.cols + col + 1 : col \in u[2]..(u[3] - 1)})
        /\ IF row_continues(w, st)
           THEN /\ wk' = [wk EXCEPT ![w] = wk[w] + 1]
                /\ UNCHANGED <<op, A, B, x, a, out, cfg, g_stop, pc, nt, t, sum,
                               ret, scratch, wend, calls, entry, prevClean, pR,
                               pN, pRange, dvars, wi, wpc, jobs, heap>>
           ELSE /\ wk' = [wk EXCEPT ![w] = 0]
                /\ WorkerNext(w, 0)
        /\ UNCHANGED <<y, ws>>

mm_worker_steps(w) ==
    /\ op = "mm"
    /\ \/ WorkerStart(w, A.rows)
       \/ WorkerCheck(w)
       \/ mm_row_step(w)

NextRow ==
    \/ mv_mt \/ mm_mt
    \/ Spawn \/ Join \/ KernelReturn
    \/ \E w \in Tids : mv_worker(w)
    \/ \E w \in Tids : mm_worker_steps(w)
    \/ on_sigint

\* mv_mt and mm_mt on arguments that pass validation
InitRow ==
    /\ \/ /\ op = "mv"
          /\ \E r \in {1, 2}, k \in {1, 2}, sd \in Seeds :
               A = MatOf(r, k, sd) /\ x = VecOf(k, sd + 1) /\ y = VecOf(r, sd + 2)
          /\ B = NoMat /\ C = NoMat
          /\ \E n \in {1, 2, 3} : cfg = [nt |-> n, tile |-> 0]
       \/ /\ op = "mm"
          /\ \E r \in {1, 2}, k \in {1, 2, 3}, n \in {1, 2} :
               A = MatOf(r, k, 1) /\ B = MatOf(k, n, 2) /\ C = MatOf(r, n, 3)
          /\ x = NoVec /\ y = NoVec
          /\ \E n \in {1, 2, 3}, tl \in 0..MaxTile : cfg = [nt |-> n, tile |-> tl]
    /\ a = 0 /\ out = 0
    /\ InitCommon

SpecRow == InitRow /\ [][NextRow]_vars

(* ---------------- the kernels under fair scheduling ---------------- *)

\* all four kernels on arguments that pass validation, every thread count
\* from 1, tiled and untiled
InitLive ==
    /\ \/ /\ op = "mv"
          /\ \E r \in {1, 2} :
               A = MatOf(r, 2, 1) /\ x = VecOf(2, 2) /\ y = VecOf(r, 3)
          /\ B = NoMat /\ C = NoMat /\ a = 0
          /\ \E n \in {1, 2, 3} : cfg = [nt |-> n, tile |-> 0]
       \/ /\ op = "mm"
          /\ \E r \in {1, 2}, k \in {1, 3} :
               A = MatOf(r, k, 1) /\ B = MatOf(k, 2, 2) /\ C = MatOf(r, 2, 3)
          /\ x = NoVec /\ y = NoVec /\ a = 0
          /\ \E n \in {1, 2, 3}, tl \in (-1)..MaxTile : cfg = [nt |-> n, tile |-> tl]
       \/ /\ op \in {"dt", "ax"}
          /\ \E l \in {1, 2} : x = VecOf(l, 1) /\ y = VecOf(l, 2)
          /\ A = NoMat /\ B = NoMat /\ C = NoMat /\ a = 2
          /\ \E n \in {1, 2, 3} : cfg = [nt |-> n, tile |-> 0]
    /\ out = 0
    /\ InitCommon

NextLive ==
    \/ mv_mt \/ mm_mt \/ dt_mt \/ ax_mt
    \/ Spawn \/ Join \/ KernelReturn
    \/ \E w \in Tids : mv_worker(w)
    \/ \E w \in Tids : mm_worker_steps(w)
    \/ \E w \in Tids : dt_worker(w)
    \/ \E w \in Tids : ax_worker(w)
    \/ on_sigint

\* the scheduler lets every worker and the calling thread inside a call run;
\* nothing obliges the driver to call again or a signal to arrive
Fairness ==
    /\ WF_vars(Spawn) /\ WF_vars(Join) /\ WF_vars(KernelReturn)
    /\ \A w \in Tids :
          WF_vars(mv_worker(w) \/ mm_worker_steps(w) \/ dt_worker(w) \/ ax_worker(w))

SpecLive == InitLive /\ [][NextLive]_vars /\ Fairness

(* ---------------- main.c: the benchmark driver ---------------- *)

\* the kernel variables no step of the driver itself changes
kstate == <<g_stop, nt, t, sum, ret, scratch, jobs, wpc, wi, wend, ws,
            writers, entry, prevClean, wk, heap, pR, pN, pRange>>

Paths == {"A", "B", "x", "y"}

\* what a file can hold: "ok" loads, "bad" fails to load, "odd" loads with a
\* size that does not fit the other input
FileStates(p) ==
    IF p = "A" THEN {"ok", "bad"}
    ELSE IF p = "B" THEN {"ok", "odd"}
    ELSE IF p = "x" THEN {"ok", "bad", "odd"}
    ELSE {"ok", "odd"}

\* m_load / v_load of the file behind path p
LoadMat(p) ==
    IF p = "A" THEN MatOf(2, 2, 1)
    ELSE IF files[p] = "ok" THEN MatOf(2, 2, 2) ELSE MatOf(1, 2, 2)

LoadVec(p) ==
    IF p = "x" THEN (IF files[p] = "ok" THEN VecOf(2, 1) ELSE VecOf(1, 1))
    ELSE (IF files[p] = "ok" THEN VecOf(2, 2) ELSE VecOf(1, 2))

\* the input paths do_<o> requires, in the order it loads them
Need(o) ==
    IF o = "mm" THEN <<"A", "B">>
    ELSE IF o = "mv" THEN <<"A", "x">>
    ELSE <<"x", "y">>

\* the objects do_<o> holds while its timing loops run
Objs(o) ==
    IF o = "mm" THEN {"A", "B", "C1", "CN"}
    ELSE IF o = "mv" THEN {"A", "x", "y1", "yN"}
    ELSE IF o = "dot" THEN {"x", "y"}
    ELSE {"x", "y1", "yN"}

\* the local name of the object loaded from path p in do_<o>
ObjOf(o, p) == IF o = "axpy" /\ p = "y" THEN "y1" ELSE p

\* the kernel do_<o> calls
KOp(o) ==
    IF o = "mm" THEN "mm" ELSE IF o = "mv" THEN "mv"
    ELSE IF o = "dot" THEN "dt" ELSE "ax"

\* mutant: --op all runs dot before mv
next_op_swapped(o) ==
    IF o = "mm" THEN "dot" ELSE IF o = "dot" THEN "mv"
    ELSE IF o = "mv" THEN "axpy" ELSE "none"

\* --op all: mm -> mv -> dot -> axpy
next_op(o) ==
    IF o = "mm" THEN "mv" ELSE IF o = "mv" THEN "dot"
    ELSE IF o = "dot" THEN "axpy" ELSE "none"

\* the dimension check of do_<o> on its two loaded inputs
DimsFit(o) ==
    IF o = "mm" THEN LoadMat("A").cols = LoadMat("B").rows
    ELSE IF o = "mv" THEN LoadMat("A").cols = LoadVec("x").len
    ELSE LoadVec("x").len = LoadVec("y").len

InitDriver ==
    /\ \E o \in {"none", "mm", "mv", "dot", "axpy", "all"},
          P \in SUBSET Paths, n \in 0..2, rp \in 0..MaxRep :
         /\ (n = 0 \/ rp = 0) => (o = "all" /\ P = Paths)
         /\ argv = [op |-> o, paths |-> P, nt |-> n, rep |-> rp]
         /\ files \in {f \in [P -> {"ok", "bad", "odd"}] :
                          \A p \in P : f[p] \in FileStates(p)}
    /\ dpos = "main" /\ cur = "none" /\ iter = 0 /\ rc = 0 /\ exitcode = -1
    /\ live = {} /\ printed = {}
    /\ res1 = 0 /\ resN = 0
    /\ op = "mm" /\ A = NoMat /\ B = NoMat /\ C = NoMat /\ x = NoVec /\ y = NoVec
    /\ a = 0 /\ out = 0 /\ cfg = [nt |-> 1, tile |-> 0]
    /\ g_stop = FALSE /\ pc = "ret"
    /\ nt = 0 /\ t = 0 /\ sum = 0 /\ ret = 0
    /\ scratch = "none"
    /\ NoWorkers
    /\ calls = 0
    /\ writers = <<>>
    /\ entry = [y |-> y, C |-> C, out |-> out]
    /\ prevClean = FALSE
    /\ pR = 0 /\ pN = 1 /\ pRange = <<>>

\* main after option parsing: usage error, or the first do_<op>
main_start ==
    /\ dpos = "main"
    /\ IF argv.op = "none" \/ argv.nt <= 0 \/ argv.rep <= 0
       THEN exitcode' = 1 /\ dpos' = "exit" /\ cur' = cur
       ELSE /\ exitcode' = exitcode
            /\ dpos' = "enter"
            /\ cur' = IF argv.op = "all" THEN "mm" ELSE argv.op
    /\ UNCHANGED <<argv, files, iter, rc, live, printed, res1, resN>>
    /\ UNCHANGED <<op, A, B, C, x, y, a, out, cfg, pc, calls>>
    /\ UNCHANGED kstate

\* do_<cur> up to its first timing loop: skip when a path is missing, load,
\* dimension check, allocation of the outputs
do_enter ==
    /\ dpos = "enter"
    /\ LET p1 == Need(cur)[1]
           p2 == Need(cur)[2]
           fail(leak) ==
              /\ rc' = -1 /\ dpos' = "rc" /\ live' = live \cup leak
              /\ UNCHANGED <<op, A, B, x, y, a, res1, resN>>
       IN  IF ~({p1, p2} \subseteq argv.paths)
           THEN /\ rc' = 0 /\ dpos' = "rc"
                /\ UNCHANGED <<live, op, A, B, x, y, a, res1, resN>>
           ELSE IF files[p1] = "bad" THEN fail({})
           ELSE IF files[p2] = "bad" THEN fail({ObjOf(cur, p1)})
           ELSE IF ~DimsFit(cur) THEN fail({})
           ELSE \E ok1 \in BOOLEAN, okN \in BOOLEAN :
                  IF cur \in {"mm", "axpy"} /\ ~(ok1 /\ okN)
                  THEN fail({})
                  ELSE /\ rc' = rc /\ dpos' = "head1"
                       /\ op' = KOp(cur)
                       /\ a' = 2
                       /\ A' = IF cur \in {"mm", "mv"} THEN LoadMat("A") ELSE A
                       /\ B' = IF cur = "mm" THEN LoadMat("B") ELSE B
                       /\ x' = IF cur = "mm" THEN x ELSE LoadVec("x")
                       /\ y' = IF cur = "dot" THEN LoadVec("y") ELSE y
                       /\ res1' = IF cur = "mm" THEN m_alloc(2, 2)
                                  ELSE IF cur = "mv" THEN (IF ok1 THEN v_alloc(2) ELSE NoVec)
                                  ELSE IF cur = "dot" THEN 0
                                  ELSE LoadVec("y")
                       /\ resN' = IF cur = "mm" THEN m_alloc(2, 2)
                                  ELSE IF cur = "mv" THEN (IF okN THEN v_alloc(2) ELSE NoVec)
                                  ELSE IF cur = "dot" THEN 0
                                  ELSE LoadVec("y")
                       /\ live' = live \cup
                             (Objs(cur) \ ((IF cur = "mv" /\ ~ok1 THEN {"y1"} ELSE {})
                                           \cup (IF cur = "mv" /\ ~okN THEN {"yN"} ELSE {})))
    /\ iter' = 0
    /\ UNCHANGED <<argv, files, cur, exitcode, printed>>
    /\ UNCHANGED <<C, out, cfg, pc, calls>>
    /\ UNCHANGED kstate

\* mutant: the loop condition does not look at the flag
loop_cond_nostop(r) == r < argv.rep

\* r < rep && !g_stop
loop_cond(r) == r < argv.rep /\ ~g_stop

\* the head of a timing loop
loop_head ==
    /\ dpos \in {"head1", "headN"}
    /\ IF loop_cond(iter)
       THEN dpos' = IF dpos = "head1" THEN "prep1" ELSE "prepN"
       ELSE dpos' = IF dpos = "head1" THEN "after1" ELSE "afterN"
    /\ UNCHANGED <<argv, files, cur, iter, rc, exitcode, live, printed, res1, resN>>
    /\ UNCHANGED <<op, A, B, C, x, y, a, out, cfg, pc, calls>>
    /\ UNCHANGED kstate

\* the body of a timing loop up to the kernel call: the output argument
\* (axpy: ytmp = v_alloc, memcpy from y1; memcpy of y1 into yN) and the KCfg.
\* A failed v_alloc of ytmp is not tested: memcpy then writes through NULL,
\* which kills the process or is not noticed.
loop_prep ==
    /\ dpos \in {"prep1", "prepN"}
    /\ LET res == IF dpos = "prep1" THEN res1 ELSE resN
           go  == /\ dpos' = IF dpos = "prep1" THEN "wait1" ELSE "waitN"
                  /\ pc' = "idle"
                  /\ calls' = 0
                  /\ cfg' = [nt |-> IF dpos = "prep1" THEN 1 ELSE argv.nt,
                             tile |-> IF cur = "mm" THEN 1 ELSE 0]
                  /\ C' = IF cur = "mm" THEN res ELSE C
                  /\ out' = IF cur = "dot" THEN res ELSE out
       IN  IF cur = "axpy" /\ dpos = "prep1"
           THEN \E got \in BOOLEAN, killed \in BOOLEAN :
                  IF got
                  THEN go /\ y' = res1 /\ live' = live \cup {"ytmp"}
                  ELSE IF killed
                  THEN /\ dpos' = "crashed"
                       /\ UNCHANGED <<pc, calls, cfg, C, out, y, live>>
                  ELSE go /\ y' = NoVec /\ live' = live
           ELSE /\ go
                /\ y' = IF cur = "mv" THEN res ELSE IF cur = "axpy" THEN res1 ELSE y
                /\ live' = live
    /\ UNCHANGED <<argv, files, cur, iter, rc, exitcode, printed, res1, resN>>
    /\ UNCHANGED <<op, A, B, x, a>>
    /\ UNCHANGED kstate

\* the kernel has returned: the rest of the loop body and r++
loop_back ==
    /\ dpos \in {"wait1", "waitN"}
    /\ pc = "ret"
    /\ LET now == IF cur = "mm" THEN C ELSE IF cur = "dot" THEN out ELSE y
       IN  /\ res1' = IF dpos = "wait1" /\ cur # "axpy" THEN now ELSE res1
           /\ resN' = IF dpos = "waitN" THEN now ELSE resN
    /\ live' = live \ {"ytmp"}
    /\ iter' = iter + 1
    /\ dpos' = IF dpos = "wait1" THEN "head1" ELSE "headN"
    /\ UNCHANGED <<argv, files, cur, rc, exitcode, printed>>
    /\ UNCHANGED <<op, A, B, C, x, y, a, out, cfg, pc, calls>>
    /\ UNCHANGED kstate

\* after a timing loop: if (g_stop) { free everything; return 2; }
loop_after ==
    /\ dpos \in {"after1", "afterN"}
    /\ IF g_stop
       THEN /\ live' = live \ Objs(cur)
            /\ rc' = 2 /\ dpos' = "rc"
       ELSE /\ live' = live /\ rc' = rc
            /\ dpos' = IF dpos = "after1" THEN "headN" ELSE "print"
    /\ iter' = 0
    /\ UNCHANGED <<argv, files, cur, exitcode, printed, res1, resN>>
    /\ UNCHANGED <<op, A, B, C, x, y, a, out, cfg, pc, calls>>
    /\ UNCHANGED kstate

\* run_bench, the preview, the frees and return g_stop ? 2 : 0
do_finish ==
    /\ dpos = "print"
    /\ printed' = printed \cup {cur}
    /\ live' = live \ Objs(cur)
    /\ rc' = IF g_stop THEN 2 ELSE 0
    /\ dpos' = "rc"
    /\ UNCHANGED <<argv, files, cur, iter, exitcode, res1, resN>>
    /\ UNCHANGED <<op, A, B, C, x, y, a, out, cfg, pc, calls>>
    /\ UNCHANGED kstate

\* main after do_<cur> has returned rc
main_rc ==
    /\ dpos = "rc"
    /\ IF argv.op = "all"
       THEN IF rc = 2 THEN exitcode' = 2 /\ dpos' = "exit" /\ cur' = cur
            ELSE IF rc < 0 THEN exitcode' = 1 /\ dpos' = "exit" /\ cur' = cur
            ELSE IF next_op(cur) = "none"
                 THEN exitcode' = 0 /\ dpos' = "exit" /\ cur' = cur
                 ELSE exitcode' = exitcode /\ dpos' = "enter" /\ cur' = next_op(cur)
       ELSE /\ exitcode' = IF rc < 0 THEN 1 ELSE IF g_stop THEN 2 ELSE 0
            /\ dpos' = "exit" /\ cur' = cur
    /\ UNCHANGED <<argv, files, iter, rc, live, printed, res1, resN>>
    /\ UNCHANGED <<op, A, B, C, x, y, a, out, cfg, pc, calls>>
    /\ UNCHANGED kstate

\* the driver with the kernels it calls; SIGINT may arrive until the exit
NextDriver ==
    \/ main_start \/ do_enter \/ loop_head \/ loop_prep \/ loop_back
    \/ loop_after \/ do_finish \/ main_rc
    \/ pc = "idle" /\ (mv_mt \/ mm_mt \/ dt_mt \/ ax_mt)
    \/ Spawn \/ Join \/ KernelReturn
    \/ \E w \in Tids : mv_worker(w)
    \/ \E w \in Tids : mm_worker(w)
    \/ \E w \in Tids : dt_worker(w)
    \/ \E w \in Tids : ax_worker(w)
    \/ dpos \notin {"exit", "crashed"} /\ on_sigint

SpecDriver == InitDriver /\ [][NextDriver]_vars

(* ---------------- the partitioner on its own ---------------- *)

InitPart ==
    /\ op = "dt" /\ A = NoMat /\ B = NoMat /\ C = NoMat /\ x = NoVec /\ y = NoVec
    /\ a = 0 /\ out = 0 /\ cfg = [nt |-> 1, tile |-> 0]
    /\ g_stop = FALSE /\ pc = "idle"
    /\ nt = 0 /\ t = 0 /\ sum = 0 /\ ret = 0
    /\ scratch = "none"
    /\ NoWorkers
    /\ calls = 0
    /\ writers = <<>>
    /\ entry = [y |-> y, C |-> C, out |-> out]
    /\ prevClean = FALSE
    /\ NoDriver
    /\ pR \in 0..MaxPR
    /\ pN \in 1..MaxPN
    /\ pRange = <<>>

\* the caller asks for the range of the next worker index
RangeStep ==
    /\ Len(pRange) < pN
    /\ pRange' = Append(pRange, row_range(pR, Len(pRange), pN))
    /\ UNCHANGED <<pR, pN, wk, heap, dvars>>
    /\ UNCHANGED kvars

NextRange == RangeStep

SpecRange == InitPart /\ [][NextRange]_vars

(* ======================= the claims ======================= *)

\* the row of the output offset p (1-based) of the running kernel
RowOf(p) == IF op = "mm" THEN (p - 1) \div C.cols ELSE p - 1

InRange(i, rg) == rg[1] <= i /\ i < rg[2]

\* C1: in every interleaving of the workers of one mv_mt, mm_mt or ax_mt
\* call, no output element is written by two different workers, and worker T
\* writes only elements of rows in its own row_range(R, T, N).
C1_DisjointWrites ==
    \A p \in DOMAIN writers :
        /\ Cardinality(writers[p]) <= 1
        /\ \A w \in writers[p] :
              InRange(RowOf(p), row_range(NRows, w, CoerceNT(cfg.nt)))

\* two workers of one mm_mt call have both written their own rows
C1_Witness ==
    /\ op = "mm"
    /\ \E p, q \in DOMAIN writers :
          writers[p] # {} /\ writers[q] # {} /\ writers[p] # writers[q]

\* C2: the N ranges of row_range(R, T, N), T = 0..N-1, are ascending,
\* pairwise disjoint and contiguous (start of 0 is 0, end of T is start of
\* T+1, end of N-1 is R), and their union is exactly [0,R), also when N > R.
C2_RangesPartition ==
    /\ \A k \in 1..Len(pRange) :
          /\ pRange[k][1] <= pRange[k][2]
          /\ pRange[k][1] = IF k = 1 THEN 0 ELSE pRange[k - 1][2]
          /\ pRange[k][2] <= pR
    /\ Len(pRange) = pN =>
          /\ pRange[pN][2] = pR
          /\ \A i \in 0..(pR - 1) :
                Cardinality({k \in 1..pN : InRange(i, pRange[k])}) = 1

\* all ranges have been computed for more workers than rows
C2_Witness == Len(pRange) = pN /\ pN > pR /\ pR > 1

\* C3: the range of worker T has size (R div N) + 1 when T < R mod N and
\* R div N otherwise, so any two ranges differ in size by at most 1.
C3_RangeSizes ==
    /\ \A k \in 1..Len(pRange) :
          pRange[k][2] - pRange[k][1] =
              (pR \div pN) + (IF k - 1 < pR % pN THEN 1 ELSE 0)
    /\ \A k, l \in 1..Len(pRange) :
          (pRange[k][2] - pRange[k][1]) - (pRange[l][2] - pRange[l][1]) \in {-1, 0, 1}

\* an uneven division: some workers have one row more than others
C3_Witness ==
    /\ Len(pRange) = pN
    /\ pR % pN > 1
    /\ pR > pN
    /\ \E k, l \in 1..pN :
          pRange[k][2] - pRange[k][1] = (pRange[l][2] - pRange[l][1]) + 1

\* sum of f[1..n], taken from the last term down
RECURSIVE SumTo(_, _)
SumTo(f, n) == IF n = 0 THEN 0 ELSE f[n] + SumTo(f, n - 1)

\* element (i,j) of the product A*B, and element i of A*x
ProdAB(i, j) == SumTo([k \in 1..A.cols |-> m_get(A, i, k - 1) * m_get(B, k - 1, j)], A.cols)
ProdAx(i) == SumTo([k \in 1..A.cols |-> m_get(A, i, k - 1) * x.data[k]], A.cols)

\* the last call of kernel k succeeded, was not interrupted and started all workers
CleanReturn(k) == op = k /\ pc = "ret" /\ ret = 0 /\ ~g_stop /\ AllStarted

\* C4: after an uninterrupted mv_mt call in which all workers start,
\* y[i] is the sum over k of A[i,k]*x[k] for every row i, whatever the
\* thread count (so 1 thread and N threads give equal results).
C4_MvResult ==
    CleanReturn("mv") => \A i \in 0..(A.rows - 1) : y.data[i + 1] = ProdAx(i)

\* mv_mt has returned from a run with more workers than rows
C4_Witness == CleanReturn("mv") /\ A.rows >= 2 /\ cfg.nt > A.rows /\ A.cols >= 2

\* C5: C is zero-filled before any worker is spawned, and a second
\* uninterrupted mm_mt call on the same arguments leaves the C of the first.
C5_MmIdempotent ==
    /\ (op = "mm" /\ pc = "spawn" /\ t = 0) => \A p \in DOMAIN C.data : C.data[p] = 0
    /\ (CleanReturn("mm") /\ prevClean) => C = entry.C

\* the second of two clean multi-threaded mm_mt calls has returned a
\* non-zero product
C5_Witness ==
    /\ CleanReturn("mm") /\ prevClean
    /\ cfg.nt >= 2 /\ A.rows >= 2
    /\ \E p \in DOMAIN C.data : C.data[p] # 0

\* C6: for every tile value (tile <= 0: untiled; tile > 0: tiled, also when
\* the tile does not divide the dimensions or exceeds them) and every thread
\* count, an uninterrupted mm_mt leaves C = A*B.
C6_TiledEqualsUntiled ==
    CleanReturn("mm") =>
        \A i \in 0..(A.rows - 1), j \in 0..(B.cols - 1) : m_get(C, i, j) = ProdAB(i, j)

\* a tiled run whose tile divides neither the column nor the reduction dimension
C6_Witness ==
    /\ CleanReturn("mm")
    /\ cfg.tile = 2 /\ A.cols = 3 /\ B.cols = 3 /\ A.rows = 2 /\ cfg.nt = 2
    /\ \E p \in DOMAIN C.data : C.data[p] # 0

\* C7: an uninterrupted dt_mt in which all workers start stores in *out the
\* sum of x[i]*y[i] over all i, for every thread count; x=[1,2,3], y=[4,5,6]
\* gives 32.
C7_DotResult ==
    CleanReturn("dt") =>
        /\ out = SumTo([i \in 1..x.len |-> x.data[i] * y.data[i]], x.len)
        /\ (x.data = <<1, 2, 3>> /\ y.data = <<4, 5, 6>>) => out = 32

\* the documented example, run with two workers
C7_Witness ==
    /\ CleanReturn("dt") /\ cfg.nt = 2
    /\ x.data = <<1, 2, 3>> /\ y.data = <<4, 5, 6>> /\ out = 32

\* C8: after an uninterrupted ax_mt in which all workers start, every y[i]
\* is a*x[i] + the y[i] at call entry; axpy(2, [1,2,3], [10,20,30], nt=2)
\* leaves y = [12,24,36].
C8_AxpyResult ==
    CleanReturn("ax") =>
        /\ \A i \in 1..x.len : y.data[i] = a * x.data[i] + entry.y.data[i]
        /\ (a = 2 /\ x.data = <<1, 2, 3>> /\ entry.y.data = <<10, 20, 30>>)
              => y.data = <<12, 24, 36>>

\* the documented example, run with two workers
C8_Witness ==
    /\ CleanReturn("ax") /\ cfg.nt = 2 /\ a = 2
    /\ x.data = <<1, 2, 3>> /\ entry.y.data = <<10, 20, 30>>
    /\ y.data = <<12, 24, 36>>

\* C9: a kernel call returns, and frees the job descriptors and thread
\* handles, only after every worker it spawned has finished.
C9_JoinBeforeReturn ==
    (pc = "ret" \/ scratch = "freed") => \A w \in Tids : wpc[w] \in {"none", "done"}

\* a call has returned and freed its storage after joining several workers
C9_Witness ==
    /\ pc = "ret" /\ ret = 0 /\ scratch = "freed"
    /\ Cardinality({w \in Tids : wpc[w] = "done"}) >= 2
    /\ \E p \in DOMAIN writers : writers[p] # {}

\* the arguments of the kernel the driver calls disagree in a dimension
DimMismatch ==
    \/ op = "mv" /\ (A.cols # x.len \/ A.rows # y.len)
    \/ op = "mm" /\ (A.cols # B.rows \/ C.rows # A.rows \/ C.cols # B.cols)
    \/ op \in {"dt", "ax"} /\ x.len # y.len

\* C10: on a dimension mismatch the kernel returns an error code before any
\* worker is spawned and leaves the output buffer untouched (mm does not
\* zero-fill C, dt does not write *out).
C10_MismatchRejected ==
    (DimMismatch /\ pc # "idle") =>
        /\ pc = "ret" /\ ret = -1
        /\ \A w \in Tids : wpc[w] = "none"
        /\ scratch = "none"
        /\ y = entry.y /\ C = entry.C /\ out = entry.out

\* mm_mt has rejected a C of the wrong shape that holds non-zero values
C10_Witness ==
    /\ op = "mm" /\ pc = "ret" /\ ret = -1
    /\ A.present /\ B.present /\ C.present
    /\ A.cols = B.rows /\ C.rows # A.rows
    /\ \E p \in DOMAIN C.data : C.data[p] # 0

\* the arguments of the kernel the driver calls pass its validation
ArgsValid ==
    \/ op = "mv" /\ mv_args_ok /\ mv_dims_ok
    \/ op = "mm" /\ mm_args_ok /\ mm_dims_ok
    \/ op = "dt" /\ dt_args_ok /\ dt_dims_ok
    \/ op = "ax" /\ ax_args_ok /\ ax_dims_ok

\* a call with valid arguments has returned without scratch storage
AllocFailed == ArgsValid /\ pc = "ret" /\ scratch = "none"

\* C11: when the scratch storage of a call cannot be allocated, the kernel
\* returns an error, has spawned no worker and has made no partial write:
\* y, C and *out are what they were at call entry.
C11_AllocFailureNoWrites ==
    AllocFailed =>
        /\ ret = -1
        /\ \A w \in Tids : wpc[w] = "none"
        /\ y = entry.y /\ C = entry.C /\ out = entry.out

\* some argument of the kernel the driver calls has zero size, that is an
\* absent buffer, as m_alloc and v_alloc produce it
ZeroSized ==
    \/ op = "mv" /\ (~A.present \/ ~x.present \/ ~y.present)
    \/ op = "mm" /\ (~A.present \/ ~B.present \/ ~C.present)
    \/ op \in {"dt", "ax"} /\ (~x.present \/ ~y.present)

\* C12 as stated: a call with a zero-size argument returns success (0)
C12_ZeroSizeSucceeds ==
    (ZeroSized /\ ~DimMismatch /\ pc = "ret") => ret = 0

\* C12 (amended): a call with a zero-size argument does not crash: the kernel
\* returns the error code -1 before it spawns a worker and leaves y, C and
\* *out untouched.
C12_ZeroSizeRejected ==
    (ZeroSized /\ pc # "idle") =>
        /\ pc = "ret" /\ ret = -1
        /\ \A w \in Tids : wpc[w] = "none"
        /\ scratch = "none"
        /\ y = entry.y /\ C = entry.C /\ out = entry.out

\* a dot product of two vectors of length zero has been rejected
C12_Witness ==
    /\ op = "dt" /\ pc = "ret" /\ ret = -1
    /\ x.len = 0 /\ y.len = 0 /\ ~x.present /\ ~y.present

\* C13 as stated: a call whose arguments pass validation returns 0
C13_ValidReturnsZero ==
    (ArgsValid /\ pc = "ret") => ret = 0

\* C13 (amended): a call whose arguments pass validation and whose scratch
\* storage was allocated returns 0 even when the cancellation flag is set
\* before or during the call, and no step of a kernel clears the flag.
C13_SuccessWhenCancelled ==
    /\ [](ArgsValid /\ pc = "ret" /\ scratch = "freed" => ret = 0)
    /\ [][g_stop => g_stop']_vars

\* an interrupted call has returned 0 with the flag still set: a worker left
\* its loop before the end of its range
C13_Witness ==
    /\ pc = "ret" /\ ret = 0 /\ g_stop
    /\ \E w \in Tids : wpc[w] = "done" /\ wi[w] < wend[w]

\* the partials of workers 0..n-1 added in ascending index order
RECURSIVE PartialSum(_)
PartialSum(n) == IF n = 0 THEN 0 ELSE PartialSum(n - 1) + jobs[n - 1].partial

SpawnFailedReturn ==
    pc = "ret" /\ scratch = "freed" /\ nt < CoerceNT(cfg.nt)

\* row (element) i belongs to a worker that was started
Started(i) ==
    \E w \in Tids : w < nt /\ InRange(i, row_range(NRows, w, CoerceNT(cfg.nt)))

\* C17: when the creation of worker t fails the kernel spawns no further
\* worker, joins workers 0..t-1 and returns 0; the started workers partition
\* with the original count N, so without cancellation exactly the rows of
\* row_range(R,0,N) .. row_range(R,t-1,N) are computed and the rows of
\* workers t..N-1 keep their value (mm: zero; dt: their products are missing
\* from *out).
C17_SpawnFailure ==
    SpawnFailedReturn =>
        /\ ret = 0 /\ t = nt
        /\ \A w \in Tids :
              /\ w < nt => wpc[w] = "done" /\ jobs[w].nt = CoerceNT(cfg.nt)
              /\ w >= nt => wpc[w] = "none"
        /\ \A p \in DOMAIN writers : writers[p] # {} => Started(RowOf(p))
        /\ ~g_stop =>
              /\ op = "mv" => \A i \in 0..(A.rows - 1) :
                    y.data[i + 1] = IF Started(i) THEN ProdAx(i) ELSE entry.y.data[i + 1]
              /\ op = "mm" => \A i \in 0..(A.rows - 1), j \in 0..(B.cols - 1) :
                    m_get(C, i, j) = IF Started(i) THEN ProdAB(i, j) ELSE 0
              /\ op = "ax" => \A i \in 0..(x.len - 1) :
                    y.data[i + 1] = IF Started(i)
                                    THEN a * x.data[i + 1] + entry.y.data[i + 1]
                                    ELSE entry.y.data[i + 1]
              /\ op = "dt" =>
                    out = SumTo([i \in 1..x.len |->
                                   IF Started(i - 1) THEN x.data[i] * y.data[i] ELSE 0],
                                x.len)

\* of three workers only the first two were created: the rows of the third
\* are left as they were
C17_Witness ==
    /\ SpawnFailedReturn /\ ~g_stop
    /\ CoerceNT(cfg.nt) = 3 /\ nt = 2
    /\ \E i \in 0..(NRows - 1) : ~Started(i)
    /\ \E i \in 0..(NRows - 1) : Started(i)

\* C19: a worker reads the flag at the start of each outer-loop iteration and
\* begins the iteration only if the flag is clear; a worker that reads a set
\* flag exits.  Output changes during a call only by a worker finishing the
\* one iteration it is in, so once the flag is set every worker completes at
\* most the iteration it had already begun.
C19_StopAtIterationStart ==
    [][/\ \A w \in Tids :
            /\ (wpc[w] # "body" /\ wpc'[w] = "body") =>
                  ~g_stop /\ wpc[w] \in {"start", "check"}
            /\ (g_stop /\ wpc[w] \in {"start", "check"} /\ wpc'[w] # wpc[w]) =>
                  wpc'[w] = "done" /\ y' = y /\ C' = C /\ ws' = ws
       /\ (pc \in {"spawn", "join"} /\ (y' # y \/ C' # C \/ ws' # ws \/ writers' # writers)) =>
            \E w \in Tids :
                /\ wpc[w] = "body" /\ wpc'[w] \in {"check", "done"}
                /\ wi'[w] = wi[w] + 1
                /\ \A v \in Tids \ {w} : wpc'[v] = wpc[v] /\ wi'[v] = wi[v]]_vars

\* the flag is set while one worker is inside an iteration and after
\* another worker has left its loop before the end of its range
C19_Witness ==
    /\ g_stop
    /\ \E w, v \in Tids :
          /\ wpc[w] = "body"
          /\ wpc[v] = "done" /\ wi[v] < wend[v]

\* row i of C is entirely zero / is the complete row i of A*B
RowZero(i) == \A j \in 0..(B.cols - 1) : m_get(C, i, j) = 0
RowDone(i) == \A j \in 0..(B.cols - 1) : m_get(C, i, j) = ProdAB(i, j)

\* C18: when a call with valid arguments returns, whenever the flag was set
\* and whichever workers were started, every y[i] of mv_mt is its value at
\* entry or the full sum over k of A[i,k]*x[k], and every row of C of mm_mt
\* is entirely zero or the complete row of A*B: no partly accumulated row.
C18_RowsComplete ==
    (ArgsValid /\ pc = "ret") =>
        /\ op = "mv" => \A i \in 0..(A.rows - 1) :
              y.data[i + 1] = entry.y.data[i + 1] \/ y.data[i + 1] = ProdAx(i)
        /\ op = "mm" => \A i \in 0..(A.rows - 1) : RowZero(i) \/ RowDone(i)

\* a cancelled mm_mt has returned with one row computed in several
\* inner-loop steps and another row never begun
C18_Witness ==
    /\ op = "mm" /\ pc = "ret" /\ ret = 0 /\ g_stop /\ A.cols >= 2
    /\ \E i, k \in 0..(A.rows - 1) :
          /\ RowDone(i) /\ ~RowZero(i)
          /\ RowZero(k) /\ ~RowDone(k)

\* C20: under fair scheduling every worker that was started leaves its loop
\* (at the end of its range or on reading the flag) and every call that has
\* entered its spawn loop returns, for every thread count, size and tile.
C20_CallReturns ==
    /\ (pc \in {"spawn", "join"}) ~> (pc = "ret")
    /\ [](pc = "ret" /\ scratch = "freed" =>
            \A w \in Tids : w < nt =>
                wpc[w] = "done" /\ (wi[w] = wend[w] \/ g_stop))

\* a tiled three-worker mm_mt has returned after a worker could not be
\* created and another left on reading the flag
C20_Witness ==
    /\ op = "mm" /\ pc = "ret" /\ ret = 0 /\ cfg.tile > 0 /\ cfg.nt = 3
    /\ nt < 3 /\ g_stop
    /\ \E w \in Tids : wpc[w] = "done"

\* the driver is inside one of the two timing loops of a do_* function
InLoops ==
    dpos \in {"head1", "prep1", "wait1", "after1", "headN", "prepN", "waitN", "afterN"}

\* C14: once SIGINT has set the flag while a benchmark runs its timing
\* loops, the only way out of the loops is the return of 2 with every object
\* of the op freed, and main then exits with code 2.
C14_InterruptExits2 ==
    /\ [][(g_stop /\ InLoops) =>
            (InLoops' \/ (dpos' = "rc" /\ rc' = 2 /\ live' = {}))]_vars
    /\ [][(dpos = "rc" /\ rc = 2 /\ dpos' # dpos) =>
            (dpos' = "exit" /\ exitcode' = 2)]_vars

\* the documented order of --op all
AllOrder == <<"mm", "mv", "dot", "axpy">>

\* the op after o in the documented order, "none" after the last
OpAfter(o) ==
    LET k == CHOOSE n \in 1..4 : AllOrder[n] = o
    IN  IF k = 4 THEN "none" ELSE AllOrder[k + 1]

\* a required input path of the current op was not given
PathMissing == \E n \in 1..2 : Need(cur)[n] \notin argv.paths

\* C15: --op all starts with mm and goes on in the order mm, mv, dot, axpy;
\* an op with a missing input path returns 0 without loading, allocating or
\* printing anything and the next op still runs; a negative return ends the
\* run with exit code 1 and a return of 2 with exit code 2, and after the
\* exit no op is started.
C15_AllSequence ==
    /\ [][(dpos = "main" /\ dpos' = "enter") =>
            cur' = IF argv.op = "all" THEN "mm" ELSE argv.op]_vars
    /\ [][(argv.op = "all" /\ dpos = "rc" /\ dpos' # "rc") =>
            IF rc = 2 THEN dpos' = "exit" /\ exitcode' = 2
            ELSE IF rc < 0 THEN dpos' = "exit" /\ exitcode' = 1
            ELSE IF OpAfter(cur) = "none" THEN dpos' = "exit" /\ exitcode' = 0
            ELSE dpos' = "enter" /\ cur' = OpAfter(cur)]_vars
    /\ [][(dpos = "enter" /\ PathMissing /\ dpos' # dpos) =>
            /\ dpos' = "rc" /\ rc' = 0
            /\ live' = live /\ printed' = printed]_vars
    /\ [][cur' # cur => dpos' = "enter"]_vars
    /\ [][dpos = "exit" =>
            dpos' = "exit" /\ cur' = cur /\ exitcode' = exitcode]_vars

\* --op all without --B: mm was skipped, mv ran and printed, dot failed and
\* ended the run with exit code 1 before axpy
C15_Witness ==
    /\ argv.op = "all" /\ "B" \notin argv.paths
    /\ dpos = "exit" /\ exitcode = 1 /\ cur = "dot"
    /\ printed = {"mv"}

\* C21: no step of any call, cancelled and partly spawned ones included,
\* changes an input: mv_mt leaves A and x, mm_mt leaves A and B, dt_mt leaves
\* x and y, ax_mt leaves x; and the flag changes only by the signal handler
\* setting it, in a step in which no worker or caller moves.
C21_InputsReadOnly ==
    [][/\ op = "mv" => A' = A /\ x' = x
       /\ op = "mm" => A' = A /\ B' = B
       /\ op = "dt" => x' = x /\ y' = y
       /\ op = "ax" => x' = x
       /\ g_stop' # g_stop =>
            /\ ~g_stop /\ g_stop'
            /\ wpc' = wpc /\ wi' = wi /\ ws' = ws /\ jobs' = jobs
            /\ pc' = pc /\ t' = t]_vars

\* a cancelled dt_mt with a worker that was never created has returned
\* after its workers read some elements
C21_Witness ==
    /\ op = "dt" /\ pc = "ret" /\ ret = 0 /\ g_stop
    /\ nt >= 1 /\ nt < CoerceNT(cfg.nt)
    /\ \E w \in Tids : wpc[w] = "done" /\ ws[w] # 0

\* C22: ths and jobs are asked for at call entry; while the call runs both
\* are held and not freed, and on every return after the allocation attempt
\* (success, a failed calloc, a worker not created, cancellation) each of
\* the two that was obtained has been freed exactly once and the other not
\* at all.  No step of a kernel frees or resizes an argument buffer.
C22_ScratchFreedOnce ==
    /\ [](/\ pc \in {"spawn", "join"} =>
                \A o \in {"ths", "jobs"} : heap[o].got /\ heap[o].frees = 0
          /\ (pc = "ret" /\ ArgsValid) =>
                \A o \in {"ths", "jobs"} :
                    heap[o].frees = IF heap[o].got THEN 1 ELSE 0
          /\ (pc = "ret" /\ scratch = "freed") =>
                \A o \in {"ths", "jobs"} : heap[o].got)
    /\ [][/\ A'.present = A.present /\ Len(A'.data) = Len(A.data)
          /\ B'.present = B.present /\ Len(B'.data) = Len(B.data)
          /\ C'.present = C.present /\ Len(C'.data) = Len(C.data)
          /\ x'.present = x.present /\ Len(x'.data) = Len(x.data)
          /\ y'.present = y.present /\ Len(y'.data) = Len(y.data)]_vars

\* a call has returned -1 because only one of the two callocs succeeded
C22_Witness ==
    /\ pc = "ret" /\ ret = -1 /\ ArgsValid
    /\ heap["ths"].got /\ ~heap["jobs"].got /\ heap["ths"].frees = 1

(* ---------------- matrix.c: allocation and release on their own ---------------- *)

\* two Mat and two Vec objects, declared empty (Mat m = {0})
InitAlloc ==
    /\ op = "dt" /\ A = m_free(NoMat) /\ B = m_free(NoMat) /\ C = NoMat
    /\ x = v_free(NoVec) /\ y = v_free(NoVec)
    /\ a = 0 /\ out = 0 /\ cfg = [nt |-> 1, tile |-> 0]
    /\ g_stop = FALSE /\ pc = "idle"
    /\ nt = 0 /\ t = 0 /\ sum = 0 /\ ret = 0
    /\ scratch = "none"
    /\ NoWorkers
    /\ calls = 0
    /\ writers = <<>>
    /\ entry = [y |-> y, C |-> C, out |-> out]
    /\ prevClean = FALSE
    /\ NoDriver
    /\ pR = 0 /\ pN = 1 /\ pRange = <<>>

MatAlloc ==
    \E r \in 0..MaxRows, c \in 0..MaxCols, got \in BOOLEAN :
        /\ \/ A' = m_alloc_call(r, c, got) /\ B' = B
           \/ B' = m_alloc_call(r, c, got) /\ A' = A
        /\ UNCHANGED <<x, y>>

MatFree ==
    /\ \/ A' = m_free(A) /\ B' = B
       \/ B' = m_free(B) /\ A' = A
    /\ UNCHANGED <<x, y>>

VecAlloc ==
    \E n \in 0..MaxLen, got \in BOOLEAN :
        /\ \/ x' = v_alloc_call(n, got) /\ y' = y
           \/ y' = v_alloc_call(n, got) /\ x' = x
        /\ UNCHANGED <<A, B>>

VecFree ==
    /\ \/ x' = v_free(x) /\ y' = y
       \/ y' = v_free(y) /\ x' = x
    /\ UNCHANGED <<A, B>>

NextAlloc ==
    /\ MatAlloc \/ MatFree \/ VecAlloc \/ VecFree
    /\ UNCHANGED <<op, C, a, out, cfg, pc, calls, kstate, dvars>>

SpecAlloc == InitAlloc /\ [][NextAlloc]_vars

(* ---------------- C24: the empty-state invariant ---------------- *)

MatShapeOk(M) ==
    \/ M.present /\ Len(M.data) = M.rows * M.cols
    \/ ~M.present /\ M.rows = 0 /\ M.cols = 0

VecShapeOk(V) ==
    \/ V.present /\ Len(V.data) = V.len
    \/ ~V.present /\ V.len = 0

\* C24: after any sequence of m_alloc, m_free, v_alloc and v_free every Mat
\* has a buffer of exactly rows*cols values or no buffer and rows = cols = 0,
\* and every Vec has a buffer of exactly len values or no buffer and len = 0.
C24_EmptyState ==
    /\ MatShapeOk(A) /\ MatShapeOk(B)
    /\ VecShapeOk(x) /\ VecShapeOk(y)

(* ---------------- C23: a non-positive thread count ---------------- *)

\* what the single worker of a one-thread call leaves behind: the rows
\* 0..R-1 taken in order
RECURSIVE OneThreadMm(_, _)
OneThreadMm(cd, i) ==
    IF i >= A.rows THEN cd ELSE OneThreadMm(mm_row(cd, A, B, i, cfg.tile), i + 1)

RECURSIVE OneThreadDot(_, _)
OneThreadDot(s, i) ==
    IF i >= x.len THEN s ELSE OneThreadDot(s + x.data[i + 1] * y.data[i + 1], i + 1)

OneThreadResult ==
    CASE op = "mv" -> y.data = [i \in 1..A.rows |-> mv_row(i - 1)]
      [] op = "mm" -> C.data = OneThreadMm(ZeroFill(C).data, 0)
      [] op = "dt" -> out = OneThreadDot(0, 0)
      [] op = "ax" -> y.data = [i \in 1..x.len |-> a * x.data[i] + entry.y.data[i]]

\* C23: a valid call with nt <= 0 whose scratch storage was obtained runs
\* with a thread count of one: only worker 0 is ever created, its job says
\* one thread and its range is the whole [0, R); when it was created and the
\* run was not cancelled the call returns 0 with the output of a one-thread
\* call.
C23_NonPositiveIsOne ==
    (cfg.nt <= 0 /\ ArgsValid /\ pc \in {"spawn", "join", "ret"} /\ scratch # "none") =>
        /\ nt \in {0, 1}
        /\ pc = "spawn" => nt = 1 /\ t = 0
        /\ \A w \in Tids : w >= 1 => wpc[w] = "none"
        /\ wpc[0] # "none" =>
              /\ nt = 1 /\ jobs[0].nt = 1 /\ jobs[0].tid = 0
              /\ row_range(NRows, jobs[0].tid, jobs[0].nt) = <<0, NRows>>
              /\ wpc[0] # "start" => wend[0] = NRows /\ wi[0] \in 0..NRows
        /\ (pc \in {"join", "ret"} /\ wpc[0] = "none") => nt = 0
        /\ (pc = "ret" /\ nt = 1 /\ ~g_stop) => ret = 0 /\ OneThreadResult

\* a call with nt = -1 has returned the full result of several rows
C23_Witness ==
    /\ cfg.nt = -1 /\ ArgsValid /\ pc = "ret" /\ scratch = "freed" /\ ~g_stop
    /\ nt = 1 /\ wpc[0] = "done" /\ NRows >= 2 /\ ret = 0

(* ---------------- C25: the partial sums of dt_mt ---------------- *)

\* C25: in dt_mt a job's partial is changed only by the exit of its own
\* worker, which stores the worker's final sum and leaves every other job
\* alone; the caller reads jobs[t].partial only when worker t is done, and
\* reads that final sum; a finished worker's partial stays what it stored.
C25_PartialOwnedThenRead ==
    /\ [][(op = "dt" /\ pc \in {"spawn", "join"} /\ pc' \in {"spawn", "join"}) =>
            \A w \in Tids : jobs'[w].partial # jobs[w].partial =>
                /\ wpc[w] \in {"start", "body", "check"} /\ wpc'[w] = "done"
                /\ jobs'[w].partial = ws'[w]
                /\ \A v \in Tids \ {w} : jobs'[v] = jobs[v]]_vars
    /\ [][(op = "dt" /\ pc = "join" /\ t' # t) =>
            /\ wpc[t] = "done" /\ wpc'[t] = "done"
            /\ jobs[t].partial = ws[t]
            /\ sum' = sum + ws[t]]_vars
    /\ [](op = "dt" => \A w \in Tids : wpc[w] = "done" => jobs[w].partial = ws[w])

\* the caller has read the first partial while the second worker still runs
C25_Witness ==
    /\ op = "dt" /\ pc = "join" /\ t = 1 /\ nt >= 2
    /\ wpc[1] = "body"
    /\ sum # 0 /\ sum = jobs[0].partial

(* ---------------- C26: what a cancelled worker has processed ---------------- *)

\* the rows (elements) whose output worker w has written in this call
Processed(w) == {RowOf(p) : p \in {q \in DOMAIN writers : w \in writers[q]}}

RECURSIVE DotOver(_, _)
DotOver(lo, hi) ==
    IF lo >= hi THEN 0 ELSE DotOver(lo, hi - 1) + x.data[hi] * y.data[hi]

\* row (element) i holds its result / still holds what it held at the start
IndexDone(i) ==
    CASE op = "mv" -> y.data[i + 1] = mv_sum(A, x, i, 0, 0)
      [] op = "mm" -> RowDone(i)
      [] op = "ax" -> y.data[i + 1] = a * x.data[i + 1] + entry.y.data[i + 1]
      [] op = "dt" -> TRUE

IndexUntouched(i) ==
    CASE op = "mv" -> y.data[i + 1] = entry.y.data[i + 1]
      [] op = "mm" -> RowZero(i)
      [] op = "ax" -> y.data[i + 1] = entry.y.data[i + 1]
      [] op = "dt" -> TRUE

\* C26: at every moment of a call, cancelled or not, each worker that has
\* started on its range [i0, i1) has processed exactly the indices [i0, p)
\* for its own position p with i0 <= p <= i1: those hold their results, the
\* indices [p, i1) are untouched, whatever the other workers have done.
C26_ProcessedIsPrefix ==
    (ArgsValid /\ pc \in {"spawn", "join", "ret"} /\ scratch # "none") =>
        \A w \in Tids :
            IF wpc[w] \in {"body", "check", "done"}
            THEN LET i0 == row_range(NRows, jobs[w].tid, jobs[w].nt)[1]
                     i1 == row_range(NRows, jobs[w].tid, jobs[w].nt)[2]
                     p == wi[w]
                 IN  /\ i0 <= p /\ p <= i1
                     /\ op # "dt" => Processed(w) = i0..(p - 1)
                     /\ op = "dt" => ws[w] = DotOver(i0, p)
                     /\ \A i \in i0..(p - 1) : IndexDone(i)
                     /\ \A i \in p..(i1 - 1) : IndexUntouched(i)
            ELSE op # "dt" => Processed(w) = {}

\* a cancelled call has returned: one worker stopped in the middle of its
\* range, another had finished its own
C26_Witness ==
    /\ ArgsValid /\ pc = "ret" /\ scratch = "freed" /\ g_stop /\ op \in {"mv", "ax"}
    /\ \E w, v \in Tids :
          /\ w # v /\ wpc[w] = "done" /\ wpc[v] = "done"
          /\ row_range(NRows, w, nt)[1] < wi[w] /\ wi[w] < row_range(NRows, w, nt)[2]
          /\ row_range(NRows, v, nt)[1] < wi[v] /\ wi[v] = row_range(NRows, v, nt)[2]

(* ---------------- C27: the driver and the cancellation flag ---------------- *)

\* C27: in every do_* a timing-loop iteration is entered, and a kernel call
\* started, only from a loop head that saw the flag clear; when the flag is
\* seen set after the 1-thread or the N-thread loop the function returns 2
\* at once: the N-thread loop is not started and nothing is printed; results
\* are printed only after the check behind the N-thread loop saw the flag
\* clear.
C27_NoWorkAfterStopSeen ==
    [][/\ (dpos \in {"head1", "headN"} /\ g_stop /\ dpos' # dpos) =>
             /\ dpos' = (IF dpos = "head1" THEN "after1" ELSE "afterN")
             /\ pc' = pc
       /\ (dpos' \in {"prep1", "prepN"} /\ dpos' # dpos) =>
             /\ dpos = (IF dpos' = "prep1" THEN "head1" ELSE "headN")
             /\ ~g_stop /\ iter < argv.rep
       /\ (pc' = "idle" /\ dpos' # dpos) => dpos \in {"prep1", "prepN"}
       /\ (pc = "idle" /\ pc' # "idle") => dpos \in {"wait1", "waitN"} /\ dpos' = dpos
       /\ (dpos \in {"after1", "afterN"} /\ g_stop /\ dpos' # dpos) =>
             /\ dpos' = "rc" /\ rc' = 2
             /\ printed' = printed /\ pc' = pc
       /\ (dpos' = "headN" /\ dpos = "after1") => ~g_stop
       /\ printed' # printed =>
             /\ dpos = "print" /\ printed' = printed \cup {cur}
       /\ (dpos' = "print" /\ dpos # "print") => dpos = "afterN" /\ ~g_stop]_vars

\* the flag was set during the first of two 1-thread repetitions: the loop
\* has ended early and the check behind it is about to see the flag
C27_Witness ==
    /\ dpos = "after1" /\ g_stop /\ argv.rep = 2 /\ iter = 1
    /\ cur \notin printed /\ pc = "ret"

(* ---------------- C28: do_axpy runs every repetition on a copy ---------------- *)

\* yN is a*x + y1, the update applied once
AppliedOnce == \A i \in 1..x.len : resN.data[i] = a * x.data[i] + res1.data[i]

\* C28: in do_axpy every ax_mt call starts with its y argument a copy of the
\* loaded y1 (ytmp in the 1-thread loop, yN in the N-thread loop), y1 is
\* never changed, and when the results are printed yN is a*x + y1 applied
\* once, for every repeat count.
C28_AxpyFreshCopy ==
    /\ [](cur = "axpy" =>
            /\ (dpos \in {"wait1", "waitN"} /\ pc = "idle") =>
                  y.present /\ y.data = res1.data
            /\ dpos = "print" => AppliedOnce)
    /\ [][(cur = "axpy" /\ InLoops /\ cur' = cur) => res1' = res1]_vars

====
